---------------------------- MODULE Spec2Model ----------------------------
(***************************************************************************)
(* drawio_db: conversion of a draw.io Data Vault diagram (hubs, links,     *)
(* satellites) into an Anchor Modeling diagram (anchors, ties,             *)
(* attributes).                                                            *)
(*                                                                         *)
(* The model follows src/src/drawio_db/xml.py (parse_table,                *)
(* convert_dv_to_anchor, Table.dump_xml, dump_model, save_model) and       *)
(* src/src/drawio_db/__main__.py (main).  A Python exception is a result   *)
(* record with raised = TRUE and the exception's class in exc.             *)
(***************************************************************************)
EXTENDS Integers, Sequences, FiniteSets, TLC

VARIABLES
    doc,               \* the loaded document: the table nodes, in document order
    pc,                \* main's position
    type_i,            \* main: index of the current DataVaultTypes member
    tables_raw,        \* main: find_tables' result for the current type
    raw_i,             \* main: index of the current table_raw in tables_raw
    table,             \* main: the Table parse_table returned last
    converted_table,   \* main: the list convert_dv_to_anchor returned last
    converted_tables,  \* main: the accumulated output tables
    result,            \* main: the markup dump_model returned
    written,           \* the documents save_model has written, in order
    error              \* the uncaught exception that ended the run, if any

vars == <<doc, pc, type_i, tables_raw, raw_i, table, converted_table,
          converted_tables, result, written, error>>

(***************************************************************************)
(* Values                                                                  *)
(***************************************************************************)

\* Element.get(...) of an attribute that is absent.
None == "<None>"

\* class DataVaultTypes, in definition order (the order main iterates in).
DataVaultTypes == <<"hub", "link", "satellite">>

\* class AnchorTypes.
AnchorTypes == {"anchor", "tie", "attribute"}

\* The .value of an enum member.
TypeValue(type) ==
    CASE type = "hub" -> "h"
      [] type = "link" -> "l"
      [] type = "satellite" -> "s"
      [] type = "anchor" -> "a"
      [] type = "tie" -> "t"
      [] type = "attribute" -> "r"

SYSTEM_COLS == <<"source_id", "load_dttm">>

\* dataclass Column and dataclass Table.
Column(flag, name) == [flag |-> flag, name |-> name]

Table(name, type, columns) == [name |-> name, type |-> type, columns |-> columns]

NoTable == Table("", "", <<>>)

NoError == [stage |-> "", exc |-> ""]

\* Table.width and Table.height: ceil(37.5 * len(columns)) in integers.
TableWidth == 180

TableHeight(t) == (75 * Len(t.columns) + 1) \div 2

\* The members of a sequence.
Range(s) == {s[i] : i \in DOMAIN s}

IsPK(c) == c.flag = "PK"

IsPlain(c) == c.flag = ""

IsSYS(c) == c.flag = "SYS"

\* str.upper() on the labels the model draws from.
Upper(s) ==
    CASE s = "pk" -> "PK"
      [] s = "Pk" -> "PK"
      [] s = "fk" -> "FK"
      [] s = "sys" -> "SYS"
      [] s = "id" -> "ID"
      [] s = "cid" -> "CID"
      [] s = "zid" -> "ZID"
      [] s = "code" -> "CODE"
      [] s = "name" -> "NAME"
      [] s = "email" -> "EMAIL"
      [] s = "source_id" -> "SOURCE_ID"
      [] s = "load_dttm" -> "LOAD_DTTM"
      [] OTHER -> s

\* The Python idiom x.get("value") or default.
OrElse(v, default) == IF v = None \/ v = "" THEN default ELSE v

(***************************************************************************)
(* Schema extraction: find_tables and parse_table                          *)
(***************************************************************************)

\* A table node: its id and value attributes and the nodes whose parent it
\* is, each with its id and the value attributes of its own children.  The
\* ids of a document are unique, so that the query by @parent gives a node's
\* own children; the model nests them under the node.
RawRow(id, children) == [id |-> id, children |-> children]

RawTable(id, value, rows) == [id |-> id, value |-> value, rows |-> rows]

StartsWith(s, prefix) ==
    /\ s # None
    /\ Len(s) >= Len(prefix)
    /\ SubSeq(s, 1, Len(prefix)) = prefix

\* The query runs over every mxCell; no label of a row of the model starts
\* with a type code and an underscore, so that it finds table nodes only.
find_tables(root, data_vault_type) ==
    LET Match(n) == StartsWith(n.value, TypeValue(data_vault_type) \o "_")
    IN  SelectSeq(root, Match)

FLAGS == {"", "FK", "PK"}

\* The placeholder name of a one-child row with no label (the source writes it
\* between backquotes).
NameNotFound == "name not found"

\* SplitLabels comparing the labels with FLAGS as they are written, without
\* upper().
SplitLabelsCaseSensitive(column_innards) ==
    IF Len(column_innards) = 1
    THEN Column("", OrElse(column_innards[1], NameNotFound))
    ELSE LET first_val == OrElse(column_innards[1], "")
             second_val == OrElse(column_innards[2], "")
         IN  IF first_val \in FLAGS
             THEN Column(Upper(first_val), second_val)
             ELSE IF second_val \in FLAGS
             THEN Column(Upper(second_val), first_val)
             ELSE IF Len(first_val) < Len(first_val)
             THEN Column(Upper(first_val), second_val)
             ELSE Column(Upper(second_val), first_val)

\* The match statement of parse_table's loop body: (flag, col_name) of one
\* column container, before the system-column override.
SplitLabels(column_innards) ==
    IF Len(column_innards) = 1
    THEN Column("", OrElse(column_innards[1], NameNotFound))
    ELSE LET first_val == OrElse(column_innards[1], "")
             second_val == OrElse(column_innards[2], "")
         IN  IF Upper(first_val) \in FLAGS
             THEN Column(Upper(first_val), second_val)
             ELSE IF Upper(second_val) \in FLAGS
             THEN Column(Upper(second_val), first_val)
             ELSE IF Len(first_val) < Len(first_val)
             THEN Column(Upper(first_val), second_val)
             ELSE Column(Upper(second_val), first_val)

\* SystemOverride left out: the flag text of the row is kept.
SystemOverrideDropped(c) == c

\* flag = flag if col_name not in SYSTEM_COLS else "SYS"
SystemOverride(c) ==
    IF c.name \in Range(SYSTEM_COLS) THEN Column("SYS", c.name) ELSE c

\* ParseColumn without the `case _` of the match statement: a row of another
\* child count is read as a row of one child.
ParseColumnAnyChildCount(column_container) ==
    IF column_container.id = None
    THEN [raised |-> TRUE, exc |-> "AssertionError", value |-> Column("", "")]
    ELSE IF Len(column_container.children) \notin {1, 2}
    THEN [raised |-> FALSE, exc |-> "",
          value |-> SystemOverride(Column("", NameNotFound))]
    ELSE [raised |-> FALSE, exc |-> "",
          value |-> SystemOverride(SplitLabels(column_container.children))]

\* One iteration of parse_table's loop over the column containers.
ParseColumn(column_container) ==
    IF column_container.id = None
    THEN [raised |-> TRUE, exc |-> "AssertionError", value |-> Column("", "")]
    ELSE IF Len(column_container.children) \notin {1, 2}
    THEN [raised |-> TRUE, exc |-> "ValueError", value |-> Column("", "")]
    ELSE [raised |-> FALSE, exc |-> "",
          value |-> SystemOverride(SplitLabels(column_container.children))]

RECURSIVE ParseColumns(_, _)
ParseColumns(column_containers, columns) ==
    IF column_containers = <<>>
    THEN [raised |-> FALSE, exc |-> "", value |-> columns]
    ELSE LET c == ParseColumn(Head(column_containers))
         IN  IF c.raised
             THEN [raised |-> TRUE, exc |-> c.exc, value |-> <<>>]
             ELSE ParseColumns(Tail(column_containers), Append(columns, c.value))

parse_table(root, table_node, table_type) ==
    IF table_node.id = None \/ table_node.value = None
    THEN [raised |-> TRUE, exc |-> "AssertionError", value |-> NoTable]
    ELSE LET cols == ParseColumns(table_node.rows, <<>>)
         IN  IF cols.raised
             THEN [raised |-> TRUE, exc |-> cols.exc, value |-> NoTable]
             ELSE [raised |-> FALSE, exc |-> "",
                   value |-> Table(table_node.value, table_type, cols.value)]

(***************************************************************************)
(* Model conversion: convert_dv_to_anchor                                  *)
(***************************************************************************)

\* system_columns with the first system column only.
SystemColumnsFirstOnly == <<Column("SYS", SYSTEM_COLS[1])>>

\* def system_columns()
system_columns == [i \in DOMAIN SYSTEM_COLS |-> Column("SYS", SYSTEM_COLS[i])]

\* name[1:]
Rest(name) == SubSeq(name, 2, Len(name))

\* HubTables with the two outputs in the other order.
HubTablesAttributeFirst(t, pk, ext_key) ==
    << Table(TypeValue("attribute") \o Rest(t.name) \o "_business_key",
             "attribute", pk \o ext_key \o system_columns),
       Table(TypeValue("anchor") \o Rest(t.name), "anchor",
             pk \o system_columns) >>

\* case DataVaultTypes.hub, after its two assertions.
HubTables(t, pk, ext_key) ==
    << Table(TypeValue("anchor") \o Rest(t.name), "anchor",
             pk \o system_columns),
       Table(TypeValue("attribute") \o Rest(t.name) \o "_business_key",
             "attribute", pk \o ext_key \o system_columns) >>

\* LinkTables with the system columns appended, as for the other two types.
LinkTablesWithSystemColumns(t) ==
    << Table(TypeValue("tie") \o Rest(t.name), "tie",
             t.columns \o system_columns) >>

\* case DataVaultTypes.link.
LinkTables(t) ==
    << Table(TypeValue("tie") \o Rest(t.name), "tie", t.columns) >>

\* SatelliteTables skipping the PK column only (column.flag == "PK").
RECURSIVE SatelliteTablesSkippingPkOnly(_, _, _)
SatelliteTablesSkippingPkOnly(t, pk, i) ==
    IF i > Len(t.columns) THEN <<>>
    ELSE LET column == t.columns[i]
         IN  IF column.flag = "PK"
             THEN SatelliteTablesSkippingPkOnly(t, pk, i + 1)
             ELSE << Table(TypeValue("attribute") \o Rest(t.name) \o "_"
                             \o column.name,
                           "attribute", pk \o <<column>> \o system_columns) >>
                  \o SatelliteTablesSkippingPkOnly(t, pk, i + 1)

\* case DataVaultTypes.satellite: the loop over table.columns from column i.
RECURSIVE SatelliteTables(_, _, _)
SatelliteTables(t, pk, i) ==
    IF i > Len(t.columns) THEN <<>>
    ELSE LET column == t.columns[i]
         IN  IF column.flag # ""
             THEN SatelliteTables(t, pk, i + 1)
             ELSE << Table(TypeValue("attribute") \o Rest(t.name) \o "_"
                             \o column.name,
                           "attribute", pk \o <<column>> \o system_columns) >>
                  \o SatelliteTables(t, pk, i + 1)

convert_dv_to_anchor(t) ==
    LET pk == SelectSeq(t.columns, IsPK)
        ext_key == SelectSeq(t.columns, IsPlain)
        Raise(e) == [raised |-> TRUE, exc |-> e, value |-> <<>>]
        Return(v) == [raised |-> FALSE, exc |-> "", value |-> v]
    IN  CASE t.type = "hub" ->
               IF Len(pk) # 1 \/ Len(ext_key) # 1
               THEN Raise("AssertionError")
               ELSE Return(HubTables(t, pk, ext_key))
          [] t.type = "link" -> Return(LinkTables(t))
          [] t.type = "satellite" ->
               IF Len(pk) # 1
               THEN Raise("AssertionError")
               ELSE Return(SatelliteTables(t, pk, 1))
          [] t.type \in AnchorTypes -> Raise("ValueError")

(***************************************************************************)
(* Layout and relation emission: Table.dump_xml, dump_model, save_model    *)
(***************************************************************************)

\* One mxCell of the markup.  A row's container cell stands for the row's
\* three cells (container, flag cell, name cell), whose ids and values are
\* fixed by the same table name, column name and column flag.
Cell(tag, id, parent, flag, value, x, y, width, height, source, target) ==
    [tag |-> tag, id |-> id, parent |-> parent, flag |-> flag, value |-> value,
     x |-> x, y |-> y, width |-> width, height |-> height,
     source |-> source, target |-> target]

\* The id of a column's row container: "{table_name}_{column_name}_container".
ContainerId(table_name, column_name) ==
    table_name \o "_" \o column_name \o "_container"

table_def(t, x, y) ==
    Cell("table", t.name, "1", "", t.name, x, y, TableWidth, TableHeight(t), "", "")

pk_def(t, column) ==
    Cell("pk_row", ContainerId(t.name, column.name), t.name, column.flag,
         column.name, 0, 30, 180, 30, "", "")

col_def(t, column) ==
    Cell("col_row", ContainerId(t.name, column.name), t.name, column.flag,
         column.name, 0, 60, 180, 30, "", "")

\* Table.dump_xml: reduce() without an initial value raises TypeError on an
\* empty list; only normal_cols is guarded.
dump_xml(t, x, y) ==
    LET pks == SelectSeq(t.columns, IsPK)
        normals == SelectSeq(t.columns, IsPlain)
        syss == SelectSeq(t.columns, IsSYS)
        pk_cols == [i \in DOMAIN pks |-> pk_def(t, pks[i])]
        normal_cols == [i \in DOMAIN normals |-> col_def(t, normals[i])]
        sys_cols == [i \in DOMAIN syss |-> col_def(t, syss[i])]
    IN  IF pk_cols = <<>> \/ sys_cols = <<>>
        THEN [raised |-> TRUE, exc |-> "TypeError", value |-> <<>>]
        ELSE [raised |-> FALSE, exc |-> "",
              value |-> <<table_def(t, x, y)>> \o pk_cols \o normal_cols \o sys_cols]

X_OFFSET == 50

Y_OFFSET == 100

TIE_X == -150

TIE_Y == -150

\* dict[key] = value
Put(d, key, value) ==
    [k \in (DOMAIN d) \cup {key} |-> IF k = key THEN value ELSE d[k]]

\* RecordAnchorPk keeping the cell of the first anchor recorded under a name
\* (dict.setdefault).
RecordAnchorPkFirst(anchor_pks, t, pk) ==
    IF pk.name \in DOMAIN anchor_pks THEN anchor_pks
    ELSE Put(anchor_pks, pk.name, ContainerId(t.name, pk.name))

\* anchor_pks[pk[0].name] = "{}_{}_container".format(table.name, pk[0].name)
RecordAnchorPk(anchor_pks, t, pk) ==
    Put(anchor_pks, pk.name, ContainerId(t.name, pk.name))

\* y_next += table.height + Y_OFFSET
NextY(y_next, t) == y_next + TableHeight(t) + Y_OFFSET

\* AdvanceOffset leaving the cursor where it is.
AdvanceOffsetNowhere(current_offeset, t) == current_offeset

\* (current_offeset[0] + table.width + X_OFFSET, current_offeset[1])
AdvanceOffset(current_offeset, t) ==
    <<current_offeset[1] + TableWidth + X_OFFSET, current_offeset[2]>>

\* dump_model's local state at its start.
DumpStart ==
    [raised |-> FALSE, exc |-> "", result |-> <<>>, table_offects |-> <<>>,
     anchor_pks |-> <<>>, y_next |-> Y_OFFSET, relations_to_create |-> <<>>]

DumpRaise(st, e) == [st EXCEPT !.raised = TRUE, !.exc = e]

\* The first loop of dump_model, from table i on: the anchors.
RECURSIVE AnchorPass(_, _, _)
AnchorPass(tables, i, st) ==
    IF st.raised \/ i > Len(tables) THEN st
    ELSE LET t == tables[i]
             pk == SelectSeq(t.columns, IsPK)
         IN  IF t.type # "anchor" THEN AnchorPass(tables, i + 1, st)
             ELSE IF Len(pk) # 1 THEN DumpRaise(st, "AssertionError")
             ELSE LET xml == dump_xml(t, X_OFFSET, st.y_next)
                  IN  IF xml.raised THEN DumpRaise(st, xml.exc)
                      ELSE AnchorPass(tables, i + 1,
                             [st EXCEPT
                                !.anchor_pks = RecordAnchorPk(@, t, pk[1]),
                                !.result = @ \o xml.value,
                                !.table_offects =
                                    Put(@, pk[1].name,
                                        <<X_OFFSET + TableWidth + X_OFFSET, st.y_next>>),
                                !.y_next = NextY(@, t)])

\* for pk in non_anchor_pks: relations_to_create.append(...), from pk j on;
\* anchor_pks[pk.name] raises KeyError for a name no anchor recorded.
RECURSIVE MarkRelations(_, _, _, _)
MarkRelations(t, non_anchor_pks, j, st) ==
    IF st.raised \/ j > Len(non_anchor_pks) THEN st
    ELSE LET pk == non_anchor_pks[j]
         IN  IF pk.name \notin DOMAIN st.anchor_pks
             THEN DumpRaise(st, "KeyError")
             ELSE MarkRelations(t, non_anchor_pks, j + 1,
                    [st EXCEPT !.relations_to_create =
                        Append(@, <<st.anchor_pks[pk.name],
                                    ContainerId(t.name, pk.name)>>)])

\* The placement of one non-anchor table, after its relations are marked.
PlaceNonAnchor(t, non_anchor_pks, st) ==
    IF t.type = "attribute"
    THEN IF non_anchor_pks = <<>> THEN DumpRaise(st, "IndexError")
         ELSE LET pk_name == non_anchor_pks[1].name
                  current_offeset == st.table_offects[pk_name]
                  xml == dump_xml(t, current_offeset[1], current_offeset[2])
              IN  IF xml.raised THEN DumpRaise(st, xml.exc)
                  ELSE [st EXCEPT
                          !.result = @ \o xml.value,
                          !.table_offects =
                              Put(@, pk_name, AdvanceOffset(current_offeset, t))]
    ELSE IF t.type = "tie"
    THEN LET xml == dump_xml(t, TIE_X, TIE_Y)
         IN  IF xml.raised THEN DumpRaise(st, xml.exc)
             ELSE [st EXCEPT !.result = @ \o xml.value]
    ELSE st

\* The second loop of dump_model, from table i on: the non-anchors.
RECURSIVE NonAnchorPass(_, _, _)
NonAnchorPass(tables, i, st) ==
    IF st.raised \/ i > Len(tables) THEN st
    ELSE LET t == tables[i]
             non_anchor_pks == SelectSeq(t.columns, IsPK)
         IN  IF t.type = "anchor" THEN NonAnchorPass(tables, i + 1, st)
             ELSE LET marked == MarkRelations(t, non_anchor_pks, 1, st)
                  IN  IF marked.raised THEN marked
                      ELSE NonAnchorPass(tables, i + 1,
                                         PlaceNonAnchor(t, non_anchor_pks, marked))

\* relation_template.format(source=source, target=target)
Relation(source, target) ==
    Cell("edge", source \o "_to_" \o target, "1", "", "", 0, 0, 100, 100,
         source, target)

dump_model(tables) ==
    LET st == NonAnchorPass(tables, 1, AnchorPass(tables, 1, DumpStart))
        rel == st.relations_to_create
    IN  IF st.raised
        THEN [raised |-> TRUE, exc |-> st.exc, value |-> <<>>]
        ELSE [raised |-> FALSE, exc |-> "",
              value |-> st.result \o [i \in DOMAIN rel |-> Relation(rel[i][1], rel[i][2])]]

(***************************************************************************)
(* main                                                                    *)
(***************************************************************************)

Fail(stage, exc) ==
    /\ pc' = "error"
    /\ error' = [stage |-> stage, exc |-> exc]

\* for data_vault_type in DataVaultTypes: tables_raw = find_tables(...)
FindTables ==
    /\ pc = "types"
    /\ type_i <= Len(DataVaultTypes)
    /\ tables_raw' = find_tables(doc, DataVaultTypes[type_i])
    /\ raw_i' = 1
    /\ pc' = "tables"
    /\ UNCHANGED <<doc, type_i, table, converted_table, converted_tables,
                   result, written, error>>

\* The inner loop is exhausted: on to the next type.
NextType ==
    /\ pc = "tables"
    /\ raw_i > Len(tables_raw)
    /\ type_i' = type_i + 1
    /\ pc' = "types"
    /\ UNCHANGED <<doc, tables_raw, raw_i, table, converted_table,
                   converted_tables, result, written, error>>

\* table = parse_table(root, table_raw, data_vault_type)
ParseTable ==
    /\ pc = "tables"
    /\ raw_i <= Len(tables_raw)
    /\ LET r == parse_table(doc, tables_raw[raw_i], DataVaultTypes[type_i])
       IN  IF r.raised
           THEN Fail("parse_table", r.exc) /\ UNCHANGED table
           ELSE table' = r.value /\ pc' = "convert" /\ UNCHANGED error
    /\ UNCHANGED <<doc, type_i, tables_raw, raw_i, converted_table,
                   converted_tables, result, written>>

\* converted_table = convert_dv_to_anchor(table)
\* converted_tables += converted_table
Convert ==
    /\ pc = "convert"
    /\ LET r == convert_dv_to_anchor(table)
       IN  IF r.raised
           THEN /\ Fail("convert_dv_to_anchor", r.exc)
                /\ UNCHANGED <<converted_table, converted_tables, raw_i>>
           ELSE /\ converted_table' = r.value
                /\ converted_tables' = converted_tables \o r.value
                /\ raw_i' = raw_i + 1
                /\ pc' = "tables"
                /\ UNCHANGED error
    /\ UNCHANGED <<doc, type_i, tables_raw, table, result, written>>

\* result = dump_model(converted_tables), once the outer loop is exhausted.
DumpModel ==
    /\ pc = "types"
    /\ type_i > Len(DataVaultTypes)
    /\ LET r == dump_model(converted_tables)
       IN  IF r.raised
           THEN Fail("dump_model", r.exc) /\ UNCHANGED result
           ELSE result' = r.value /\ pc' = "save" /\ UNCHANGED error
    /\ UNCHANGED <<doc, type_i, tables_raw, raw_i, table, converted_table,
                   converted_tables, written>>

\* save_model(result, ...): the one write of the run.
SaveModel ==
    /\ pc = "save"
    /\ written' = Append(written, result)
    /\ pc' = "done"
    /\ UNCHANGED <<doc, type_i, tables_raw, raw_i, table, converted_table,
                   converted_tables, result, error>>

Next ==
    \/ FindTables
    \/ NextType
    \/ ParseTable
    \/ Convert
    \/ DumpModel
    \/ SaveModel

(***************************************************************************)
(* Inputs                                                                  *)
(***************************************************************************)

\* The sequences over S of length at most n.
SeqsUpTo(S, n) == UNION {[1..k -> S] : k \in 0..n}

\* The id of a column row that has one.
RowId == "row"

\* A column row with an id and the given labels.
Row(children) == RawRow(RowId, children)

\* The table nodes a document of a run of main is made of: well-formed hubs,
\* links and satellites, tables that break each requirement of the pipeline,
\* and a node that is no table.
DocumentNodes ==
    { RawTable("1", "h_x", <<Row(<<"PK", "id">>), Row(<<"code">>)>>),
      RawTable("2", "h_y", <<Row(<<"id", "pk">>), Row(<<"", "code">>),
                             Row(<<"source_id">>), Row(<<"FK", "load_dttm">>)>>),
      RawTable("3", "h_z", <<Row(<<"PK", "cid">>), Row(<<"name">>)>>),
      RawTable("4", "h_w", <<Row(<<"PK", "id">>)>>),
      RawTable("5", "l_xz", <<Row(<<"PK", "id">>), Row(<<"PK", "cid">>),
                              Row(<<"source_id">>)>>),
      RawTable("6", "l_xy", <<Row(<<"FK", "id">>), Row(<<"FK", "cid">>)>>),
      RawTable("7", "l_q", <<Row(<<"PK", "zid">>), Row(<<"load_dttm">>)>>),
      RawTable("8", "s_x", <<Row(<<"PK", "id">>), Row(<<"name">>),
                             Row(<<"FK", "cid">>), Row(<<"email">>),
                             Row(<<"source_id">>)>>),
      RawTable("9", "s_z", <<Row(<<"PK", "cid">>), Row(<<"load_dttm">>)>>),
      RawTable("10", "s_w", <<Row(<<"name">>)>>),
      RawTable("11", "h_v", <<Row(<<"PK", "id">>), Row(<<"code", "", "x">>)>>),
      RawTable("12", "s_v", <<Row(<<"PK", "id">>), RawRow(None, <<"name">>)>>),
      RawTable(None, "l_v", <<Row(<<"PK", "id">>), Row(<<"source_id">>)>>),
      RawTable("14", "note", <<>>) }

\* The number of table nodes of a document.
MaxTables == 3

\* The state where main has loaded the document and enters its outer loop.
Start(root) ==
    /\ doc = root
    /\ pc = "types"
    /\ type_i = 1
    /\ tables_raw = <<>>
    /\ raw_i = 1
    /\ table = NoTable
    /\ converted_table = <<>>
    /\ converted_tables = <<>>
    /\ result = <<>>
    /\ written = <<>>
    /\ error = NoError

\* A document holds a node once: its id is unique.
Documents ==
    {root \in SeqsUpTo(DocumentNodes, MaxTables) :
        \A i, j \in DOMAIN root : (i # j) => (root[i] # root[j])}

Init == \E root \in Documents : Start(root)

Spec == Init /\ [][Next]_vars

\* parse_table as a function: the labels of a row, the rows of a table.
ParseLabels == {None, "", "PK", "pk", "FK", "sys", "SYS", "id", "source_id"}

ParseRows ==
    {Row(c) : c \in [1..1 -> ParseLabels] \cup [1..2 -> ParseLabels]}
    \cup {Row(<<>>), Row(<<"PK", "id", "">>), RawRow(None, <<"PK", "id">>)}

\* The number of rows of a table node given to parse_table.
MaxParseRows == 2

\* main is about to call parse_table on the one table node of the document.
InitParse ==
    \E rows \in SeqsUpTo(ParseRows, MaxParseRows) :
        /\ doc = <<RawTable("1", "h_x", rows)>>
        /\ pc = "tables"
        /\ type_i = 1
        /\ tables_raw = doc
        /\ raw_i = 1
        /\ table = NoTable
        /\ converted_table = <<>>
        /\ converted_tables = <<>>
        /\ result = <<>>
        /\ written = <<>>
        /\ error = NoError

SpecParse == InitParse /\ [][ParseTable]_vars

\* convert_dv_to_anchor as a function: any Table of any of the six types.
ConvertColumns ==
    {Column(f, n) : f \in {"", "PK", "FK", "SYS"}, n \in {"id", "code", "source_id"}}

\* The number of columns of a Table given to convert_dv_to_anchor.
MaxConvertColumns == 3

ConvertTypes == {"hub", "link", "satellite"} \cup AnchorTypes

\* convert_dv_to_anchor is about to be called on the table.
InitConvert ==
    \E type \in ConvertTypes, columns \in SeqsUpTo(ConvertColumns, MaxConvertColumns) :
        /\ doc = <<>>
        /\ pc = "convert"
        /\ type_i = 1
        /\ tables_raw = <<>>
        /\ raw_i = 1
        /\ table = Table(TypeValue(type) \o "_cust", type, columns)
        /\ converted_table = <<>>
        /\ converted_tables = <<>>
        /\ result = <<>>
        /\ written = <<>>
        /\ error = NoError

SpecConvert == InitConvert /\ [][Convert]_vars

\* dump_model as a function: any list of anchors, attributes and ties, in any
\* order.  Two anchors share the PK column name id; a third has another.
DumpTables ==
    { Table("a_x", "anchor", <<Column("PK", "id")>> \o system_columns),
      Table("a_y", "anchor", <<Column("PK", "id")>> \o system_columns),
      Table("a_z", "anchor", <<Column("PK", "cid")>> \o system_columns),
      Table("r_x_business_key", "attribute",
            <<Column("PK", "id"), Column("", "code")>> \o system_columns),
      Table("r_x_name", "attribute",
            <<Column("PK", "id"), Column("", "name")>> \o system_columns),
      Table("r_z_name", "attribute",
            <<Column("PK", "cid"), Column("", "name")>> \o system_columns),
      Table("t_xz", "tie",
            <<Column("PK", "id"), Column("PK", "cid"), Column("SYS", "source_id")>>) }

\* The number of tables of a list given to dump_model.
MaxDumpTables == 4

\* main has left its outer loop and is about to call dump_model on the list.
InitDump ==
    \E tables \in SeqsUpTo(DumpTables, MaxDumpTables) :
        /\ doc = <<>>
        /\ pc = "types"
        /\ type_i = Len(DataVaultTypes) + 1
        /\ tables_raw = <<>>
        /\ raw_i = 1
        /\ table = NoTable
        /\ converted_table = <<>>
        /\ converted_tables = tables
        /\ result = <<>>
        /\ written = <<>>
        /\ error = NoError

NextDump == DumpModel \/ SaveModel

SpecDump == InitDump /\ [][NextDump]_vars

(***************************************************************************)
(* Properties of convert_dv_to_anchor (checked under SpecConvert)          *)
(***************************************************************************)

\* The positions of the columns of t that carry the flag.
Flagged(t, flag) == {i \in DOMAIN t.columns : t.columns[i].flag = flag}

\* The i-th smallest member of a finite set of numbers.
Nth(S, i) == CHOOSE n \in S : Cardinality({m \in S : m <= n}) = i

\* The two system columns, as the documentation names them.
SysSourceId == [flag |-> "SYS", name |-> "source_id"]

SysLoadDttm == [flag |-> "SYS", name |-> "load_dttm"]

\* The call of convert_dv_to_anchor on `table` has ended, by a return or a raise.
ConvertEnded == (pc = "tables" /\ raw_i > 1) \/ error.stage = "convert_dv_to_anchor"

\* The call of convert_dv_to_anchor on `table` returned `converted_table`.
ConvertReturned == pc = "tables" /\ raw_i > 1

\* name with its one-character type code replaced.
Renamed(code, name) == code \o SubSeq(name, 2, Len(name))

\* C1: a hub with exactly one PK column p and exactly one plain column b (and
\* any FK or SYS columns) converts to exactly two tables, in this order: the
\* anchor 'a' + name[1:] with columns [p, SYS source_id, SYS load_dttm], then
\* the attribute 'r' + name[1:] + '_business_key' with columns
\* [p, b, SYS source_id, SYS load_dttm].
C1_HubToAnchorAndAttribute ==
    ( /\ ConvertEnded
      /\ table.type = "hub"
      /\ Cardinality(Flagged(table, "PK")) = 1
      /\ Cardinality(Flagged(table, "")) = 1 )
    => LET p == table.columns[Nth(Flagged(table, "PK"), 1)]
           b == table.columns[Nth(Flagged(table, ""), 1)]
       IN  /\ ConvertReturned
           /\ converted_table =
                << [name |-> Renamed("a", table.name), type |-> "anchor",
                    columns |-> <<p, SysSourceId, SysLoadDttm>>],
                   [name |-> Renamed("r", table.name) \o "_business_key",
                    type |-> "attribute",
                    columns |-> <<p, b, SysSourceId, SysLoadDttm>>] >>

\* C1's case: a hub with a PK column, a plain column and a third (FK or SYS)
\* column has been converted.
C1_Witness ==
    /\ ConvertReturned
    /\ table.type = "hub"
    /\ Len(table.columns) = 3
    /\ Flagged(table, "PK") = {3}
    /\ Flagged(table, "") = {1}
    /\ Len(converted_table) = 2

\* C2: a satellite with exactly one PK column p and k >= 0 plain columns
\* converts to exactly k attributes, one per plain column in source order; the
\* i-th is named 'r' + name[1:] + '_' + column_i.name and has the columns
\* [p, column_i, SYS source_id, SYS load_dttm], so that no flagged source
\* column but p is carried over, and zero plain columns give the empty list.
C2_SatelliteToAttributes ==
    ( /\ ConvertEnded
      /\ table.type = "satellite"
      /\ Cardinality(Flagged(table, "PK")) = 1 )
    => LET p == table.columns[Nth(Flagged(table, "PK"), 1)]
           plain == Flagged(table, "")
       IN  /\ ConvertReturned
           /\ Len(converted_table) = Cardinality(plain)
           /\ \A i \in DOMAIN converted_table :
                LET column == table.columns[Nth(plain, i)]
                IN  /\ converted_table[i] =
                         [name |-> Renamed("r", table.name) \o "_" \o column.name,
                          type |-> "attribute",
                          columns |-> <<p, column, SysSourceId, SysLoadDttm>>]
                    /\ converted_table[i].columns[2].flag = ""
           /\ (plain = {}) => (converted_table = <<>>)

\* C2's case: a satellite with a PK column between two plain columns has been
\* converted to two attributes.
C2_Witness ==
    /\ ConvertReturned
    /\ table.type = "satellite"
    /\ Flagged(table, "PK") = {2}
    /\ Flagged(table, "") = {1, 3}
    /\ table.columns[1] # table.columns[3]
    /\ Len(converted_table) = 2

\* C3: a link, whatever its columns, converts to exactly one table, the tie
\* 't' + name[1:] with the link's own column sequence.
C3_LinkToTie ==
    (ConvertEnded /\ table.type = "link")
    => /\ ConvertReturned
       /\ converted_table =
            << [name |-> Renamed("t", table.name), type |-> "tie",
                columns |-> table.columns] >>

\* C3's case: a link of three columns, none of them a PK or a SYS column, has
\* been converted.
C3_Witness ==
    /\ ConvertReturned
    /\ table.type = "link"
    /\ Len(table.columns) = 3
    /\ Flagged(table, "PK") = {}
    /\ Flagged(table, "SYS") = {}
    /\ Len(converted_table) = 1

(***************************************************************************)
(* Properties of parse_table (checked under SpecParse)                     *)
(***************************************************************************)

\* parse_table returned `table` for the table node tables_raw[raw_i].
ParseReturned == pc = "convert"

\* The labels that equal 'PK', 'FK' and 'SYS' up to case, and those that match
\* one of '', 'FK', 'PK' up to case (an absent label reads as '').
PKSpellings == {"PK", "Pk", "pK", "pk"}

FKSpellings == {"FK", "Fk", "fK", "fk"}

SYSSpellings == {"SYS", "SYs", "SyS", "Sys", "sYS", "sYs", "syS", "sys"}

FlagSpellings == {"", None} \cup FKSpellings \cup PKSpellings

SystemNames == {"source_id", "load_dttm"}

\* C6: a row of exactly two children where one label equals 'PK' up to case
\* and the other matches none of '', 'FK', 'PK' up to case and is no system
\* column name gives the Column with flag 'PK' and the other label as its name,
\* with the PK label first as well as second.
C6_PkLabelIsTheFlag ==
    ParseReturned =>
        \A i \in DOMAIN tables_raw[raw_i].rows :
            LET labels == tables_raw[raw_i].rows[i].children
            IN  \A j \in {1, 2} :
                    ( /\ Len(labels) = 2
                      /\ labels[j] \in PKSpellings
                      /\ labels[3 - j] \notin FlagSpellings
                      /\ labels[3 - j] \notin SystemNames )
                    => table.columns[i] = [flag |-> "PK", name |-> labels[3 - j]]

\* C6's case: a parsed table with a row whose PK label is the second child (in
\* lower case) and a row whose PK label is the first child.
C6_Witness ==
    /\ ParseReturned
    /\ Len(table.columns) = 2
    /\ tables_raw[raw_i].rows[1].children = <<"id", "pk">>
    /\ tables_raw[raw_i].rows[2].children = <<"PK", "sys">>
    /\ table.columns[1] = [flag |-> "PK", name |-> "id"]

\* C7: every Column of a parsed table named source_id or load_dttm has the flag
\* 'SYS', from a row of one child or of two and whatever the row's flag text;
\* a Column with another name has the flag 'SYS' only when the row's own flag
\* text (the label that did not become the name) reads SYS.
C7_SystemColumnsAreSys ==
    ParseReturned =>
        \A i \in DOMAIN table.columns :
            LET c == table.columns[i]
                labels == tables_raw[raw_i].rows[i].children
            IN  /\ (c.name \in SystemNames) => (c.flag = "SYS")
                /\ (c.name \notin SystemNames /\ c.flag = "SYS")
                   => /\ Len(labels) = 2
                      /\ \E j \in {1, 2} : /\ labels[j] \in SYSSpellings
                                           /\ labels[3 - j] = c.name

\* C7's case: a parsed table with a two-child row labelled PK and source_id and
\* a one-child row labelled source_id.
C7_Witness ==
    /\ ParseReturned
    /\ Len(table.columns) = 2
    /\ tables_raw[raw_i].rows[1].children = <<"PK", "source_id">>
    /\ tables_raw[raw_i].rows[2].children = <<"source_id">>
    /\ table.columns[1].flag = "SYS"
    /\ table.columns[2].flag = "SYS"

(***************************************************************************)
(* Properties of dump_model and of main (checked under Spec)               *)
(***************************************************************************)

\* dump_model was called on converted_tables, and it returned `result`.
DumpCalled == pc \in {"save", "done"} \/ error.stage = "dump_model"

DumpReturned == pc \in {"save", "done"}

IsTableCell(c) == c.tag = "table"

IsEdge(c) == c.tag = "edge"

IsNoTie(t) == t.type # "tie"

TableCells == SelectSeq(result, IsTableCell)

Edges == SelectSeq(result, IsEdge)

\* The positions in converted_tables of the tables of a type, and of the others.
OfType(type) == {i \in DOMAIN converted_tables : converted_tables[i].type = type}

NonAnchors == (DOMAIN converted_tables) \ OfType("anchor")

\* The names of the PK-flagged columns of a table, and the first of them.
PkNames(t) == {t.columns[c].name : c \in Flagged(t, "PK")}

FirstPkName(t) == t.columns[Nth(Flagged(t, "PK"), 1)].name

\* The container cell of the i-th table of the list: the markup holds the
\* anchors in list order, then the other tables in list order.
PlacedCell(i) ==
    TableCells[ IF i \in OfType("anchor")
                THEN Cardinality({k \in OfType("anchor") : k <= i})
                ELSE Cardinality(OfType("anchor"))
                     + Cardinality({k \in NonAnchors : k <= i}) ]

\* The id of the row cell of a column of a table.
RowCellId(table_name, column_name) ==
    table_name \o "_" \o column_name \o "_container"

\* The edges from one cell to another.
EdgesBetween(source, target) ==
    {k \in DOMAIN Edges : Edges[k].source = source /\ Edges[k].target = target}

\* C4, as stated: for every non-anchor table T and every PK column name n of T
\* that is the PK column name of an anchor A, exactly one edge runs from A's PK
\* cell to T's PK cell, for every such anchor A.
C4_OneEdgeFromEveryAnchor ==
    DumpReturned =>
        \A a \in OfType("anchor"), t \in NonAnchors :
            \A n \in PkNames(converted_tables[a]) \cap PkNames(converted_tables[t]) :
                Cardinality(EdgesBetween(RowCellId(converted_tables[a].name, n),
                                         RowCellId(converted_tables[t].name, n))) = 1

\* The PK-flagged columns of the non-anchor tables, as (table, column)
\* positions, and the rank of one of them in list order.
NonAnchorPks ==
    UNION {{<<t, c>> : c \in Flagged(converted_tables[t], "PK")} : t \in NonAnchors}

PkRank(q) ==
    Cardinality({r \in NonAnchorPks : r[1] < q[1] \/ (r[1] = q[1] /\ r[2] <= q[2])})

\* The anchors whose PK column has the name.
AnchorsWithPk(n) == {a \in OfType("anchor") : n \in PkNames(converted_tables[a])}

\* C4, amended: when dump_model returns, the edges are, in list order, one per
\* PK-flagged column of each non-anchor table T; the edge of a column named n
\* targets T's cell of n and leaves the PK cell of the last anchor of the list
\* whose PK column is named n.
C4_OneEdgeFromTheLastAnchor ==
    DumpReturned =>
        /\ Len(Edges) = Cardinality(NonAnchorPks)
        /\ \A q \in NonAnchorPks :
             LET T == converted_tables[q[1]]
                 n == T.columns[q[2]].name
             IN  /\ AnchorsWithPk(n) # {}
                 /\ LET A == converted_tables[
                               CHOOSE a \in AnchorsWithPk(n) :
                                   \A b \in AnchorsWithPk(n) : b <= a]
                    IN  /\ Edges[PkRank(q)].source = RowCellId(A.name, n)
                        /\ Edges[PkRank(q)].target = RowCellId(T.name, n)

\* C4's case: dump_model returned for a list with two anchors of different
\* names whose PK columns have the same name, and an attribute with that PK.
C4_Witness ==
    /\ DumpReturned
    /\ \E a, b \in OfType("anchor") :
         /\ a < b
         /\ converted_tables[a].name # converted_tables[b].name
         /\ PkNames(converted_tables[a]) = PkNames(converted_tables[b])
    /\ OfType("attribute") # {}
    /\ Len(Edges) >= 2

\* C5: when dump_model returns, no two anchors of the list are placed at the
\* same y, and no two attributes whose PK column has the same name are placed
\* at the same x.
C5_NoSharedSlot ==
    DumpReturned =>
        /\ Len(TableCells) = Len(converted_tables)
        /\ \A i \in DOMAIN converted_tables :
             PlacedCell(i).id = converted_tables[i].name
        /\ \A i, j \in OfType("anchor") :
             (i # j) => (PlacedCell(i).y # PlacedCell(j).y)
        /\ \A i, j \in OfType("attribute") :
             (i # j /\ FirstPkName(converted_tables[i]) = FirstPkName(converted_tables[j]))
             => (PlacedCell(i).x # PlacedCell(j).x)

\* C5's case: dump_model returned for a list of two anchors and two attributes
\* with the same PK column name, an attribute first and an anchor last.
C5_Witness ==
    /\ DumpReturned
    /\ OfType("anchor") = {2, 4}
    /\ OfType("attribute") = {1, 3}
    /\ converted_tables[1] # converted_tables[3]
    /\ PkNames(converted_tables[1]) = PkNames(converted_tables[3])
    /\ PlacedCell(2).y < PlacedCell(4).y
    /\ PlacedCell(1).x < PlacedCell(3).x

\* A table ends with the two system columns.
EndsWithSystemColumns(t) ==
    /\ Len(t.columns) >= 2
    /\ t.columns[Len(t.columns) - 1] = SysSourceId
    /\ t.columns[Len(t.columns)] = SysLoadDttm

\* No column named as a system column is a key: none is flagged PK, and none
\* has a PK row in the markup.
NoSystemKey ==
    /\ \A i \in DOMAIN converted_tables :
         \A c \in Range(converted_tables[i].columns) :
            (c.name \in SystemNames) => (c.flag = "SYS")
    /\ \A k \in DOMAIN result :
         (result[k].tag = "pk_row") => (result[k].value \notin SystemNames)

\* C8, as stated: every output table, a tie included, ends with the system
\* columns SYS source_id and SYS load_dttm, and no system column is a key.
C8_SystemColumnsOnEveryOutput ==
    /\ \A i \in DOMAIN converted_tables : EndsWithSystemColumns(converted_tables[i])
    /\ NoSystemKey

\* C8, amended: every anchor and every attribute ends with the system columns
\* SYS source_id and SYS load_dttm; a tie has the columns of its link as
\* parse_table gave them, no system column appended; and no column named as a
\* system column is a key, in the tables made from parse_table's output.
C8_SystemColumnsOnAnchorsAndAttributes ==
    /\ \A i \in OfType("anchor") \cup OfType("attribute") :
         EndsWithSystemColumns(converted_tables[i])
    /\ (ConvertReturned /\ table.type = "link")
       => /\ Len(converted_table) = 1
          /\ converted_table[1].columns = table.columns
    /\ NoSystemKey

\* C8's case: a run that converted a hub, a link without system columns and a
\* satellite.
C8_Witness ==
    /\ pc = "tables"
    /\ type_i = 3
    /\ OfType("anchor") # {}
    /\ \E i \in OfType("tie") : ~EndsWithSystemColumns(converted_tables[i])
    /\ \E i \in OfType("attribute") : converted_tables[i].columns[2].name = "email"

\* The table nodes of the document that main finds.
Found == {i \in DOMAIN doc : \E k \in DOMAIN DataVaultTypes :
                                StartsWith(doc[i].value, TypeValue(DataVaultTypes[k]) \o "_")}

\* What parse_table requires of a table node: ids, and rows of 1 or 2 children.
WellFormedNode(node) ==
    /\ node.id # None
    /\ node.value # None
    /\ \A r \in DOMAIN node.rows :
         /\ node.rows[r].id # None
         /\ Len(node.rows[r].children) \in {1, 2}

\* What convert_dv_to_anchor requires of a Data Vault table.
WellFormedTable(t) ==
    /\ (t.type = "hub") => /\ Cardinality(Flagged(t, "PK")) = 1
                           /\ Cardinality(Flagged(t, "")) = 1
    /\ (t.type = "satellite") => Cardinality(Flagged(t, "PK")) = 1

\* The type main parses a found table node as.
TypeOf(node) ==
    CHOOSE type \in Range(DataVaultTypes) : StartsWith(node.value, TypeValue(type) \o "_")

\* What main requires of a found table node before it can write.
WellFormed(node) ==
    /\ WellFormedNode(node)
    /\ WellFormedTable(parse_table(doc, node, TypeOf(node)).value)

\* C9: the document is written at most once, after every table of every type
\* was extracted and converted and dump_model returned; a step fails exactly
\* on what it requires (parse_table on a node or row without id or a row of a
\* child count other than 1 or 2, convert_dv_to_anchor on a hub without exactly
\* one PK and one plain column or a satellite without exactly one PK), the run
\* then stops in the error state and has written nothing; and
\* convert_dv_to_anchor raises on a table of an Anchor type.
C9_WrittenOnlyAfterAllSucceeded ==
    /\ Len(written) <= 1
    /\ (pc = "error") => (written = <<>> /\ error.exc # "" /\ ~ENABLED Next)
    /\ (pc = "convert") => WellFormedNode(tables_raw[raw_i])
    /\ (error.stage = "parse_table") => ~WellFormedNode(tables_raw[raw_i])
    /\ ConvertReturned => WellFormedTable(table)
    /\ (error.stage = "convert_dv_to_anchor") => ~WellFormedTable(table)
    /\ (written # <<>>) =>
         /\ pc = "done"
         /\ error = NoError
         /\ type_i > Len(DataVaultTypes)
         /\ written = <<result>>
         /\ ~dump_model(converted_tables).raised
         /\ result = dump_model(converted_tables).value
         /\ \A i \in Found : WellFormed(doc[i])
         /\ Len(converted_tables) >= Cardinality({i \in Found : TypeOf(doc[i]) # "satellite"})
    /\ \A type \in AnchorTypes :
         LET r == convert_dv_to_anchor([name |-> "a_x", type |-> type,
                                       columns |-> <<[flag |-> "PK", name |-> "id"],
                                                     SysSourceId, SysLoadDttm>>])
         IN  r.raised /\ r.exc = "ValueError"

\* C9's case: a run over three found tables has written its document.
C9_Witness ==
    /\ pc = "done"
    /\ written = <<result>>
    /\ Cardinality(Found) = 3
    /\ Len(converted_tables) >= 4

\* C10: dump_model returns for every list with a tie in it that it returns for
\* without the ties, and places every tie's container at (-150, -150).
C10_TiesArePlaced ==
    ( /\ DumpCalled
      /\ OfType("tie") # {}
      /\ ~dump_model(SelectSeq(converted_tables, IsNoTie)).raised )
    => /\ DumpReturned
       /\ \A i \in OfType("tie") :
            /\ PlacedCell(i).id = converted_tables[i].name
            /\ PlacedCell(i).x = -150
            /\ PlacedCell(i).y = -150

=============================================================================
